---- MODULE Spec2Model ----
(***************************************************************************)
(* Quilt designer: the tile generation and symmetry engine (layout.ts),    *)
(* the seeded random source (SeededRandom in types.ts), the palettes      *)
(* (palette.ts) and the block simplifier (community.ts).                  *)
(*                                                                         *)
(* 32-bit words are pairs <<hi, lo>> of 16-bit halves, so that every      *)
(* intermediate value stays inside the checker's integers while the       *)
(* arithmetic is still the arithmetic of Mulberry32 modulo 2^32.          *)
(***************************************************************************)
EXTENDS Integers, Sequences, FiniteSets, TLC

VARIABLES
    state,      \* the AppState held by the store (input of generateGrid)
    rngState,   \* SeededRandom.state of the instance used by the last call
    calls,      \* number of generateGrid calls made on `state` (capped)
    pool,       \* generateGrid: const pool (last call)
    paletteColors, \* generateGrid: const paletteColors (last call)
    filled,     \* generateTile: the tile after the first (random) pass
    forced,     \* generateTile: the tile after ensureAllColorsUsed
    tile,       \* generateTile: the returned tile
    grid,       \* generateGrid: the returned grid
    prevGrid,   \* the grid returned by the call before the last one
    shown,      \* redraw: currentGrid = simplifyGrid(rawGrid)
    shownTwice, \* simplifyGrid applied to currentGrid once more
    srcBlock,   \* generateTile: the block a source.transform is applied to
    mirrored,   \* the blocks the transforms returned for srcBlock
    redrawTimeout, \* main.ts: redrawTimeout holds a timer handle
    pendingRedraw, \* main.ts: pendingRedraw
    timers,     \* the setTimeout timers started and not yet fired
    updates     \* the calls of store.update so far

vars == <<state, rngState, calls, pool, paletteColors, filled, forced, tile,
          grid, prevGrid, shown, shownTwice, srcBlock, mirrored,
          redrawTimeout, pendingRedraw, timers, updates>>

\* the redraw throttle and the update count
throttle == <<redrawTimeout, pendingRedraw, timers, updates>>

----------------------------------------------------------------------------
(* Bounds of the model *)

MaxTile == 3
NumSeeds == 4
MaxWeight == 2
MaxGrid == 4
MaxCalls == 2
MaxUpdates == 3

----------------------------------------------------------------------------
(* Statement order *)

\* const v = e; ...: Only({Rest(v) : v \in {e}}) evaluates e first and
\* lets Rest work on its value
Only(S) == CHOOSE r \in S : TRUE

----------------------------------------------------------------------------
(* 32-bit integer arithmetic *)

Half == 65536

RECURSIVE XorBits(_, _, _)
XorBits(a, b, n) ==
    IF n = 0 THEN 0
    ELSE ((a + b) % 2) + 2 * XorBits(a \div 2, b \div 2, n - 1)

RECURSIVE OrBits(_, _, _)
OrBits(a, b, n) ==
    IF n = 0 THEN 0
    ELSE (IF (a % 2) + (b % 2) > 0 THEN 1 ELSE 0)
         + 2 * OrBits(a \div 2, b \div 2, n - 1)

\* a ^ b and a | b on 4-bit digits, tabulated
XorNibble == [a \in 0..15 |-> [b \in 0..15 |-> XorBits(a, b, 4)]]

OrNibble == [a \in 0..15 |-> [b \in 0..15 |-> OrBits(a, b, 4)]]

\* a bitwise operation on 16-bit numbers, digit by digit
Bitwise16(op, a, b) ==
    op[a % 16][b % 16]
    + 16 * op[(a \div 16) % 16][(b \div 16) % 16]
    + 256 * op[(a \div 256) % 16][(b \div 256) % 16]
    + 4096 * op[a \div 4096][b \div 4096]

Xor32(x, y) ==
    <<Bitwise16(XorNibble, x[1], y[1]), Bitwise16(XorNibble, x[2], y[2])>>

Or32(x, y) ==
    <<Bitwise16(OrNibble, x[1], y[1]), Bitwise16(OrNibble, x[2], y[2])>>

\* x >>> k for 0 < k < 16, with P = 2^k
Shr32(x, P) == <<x[1] \div P, (x[2] \div P) + (x[1] % P) * (Half \div P)>>

Add32(x, y) ==
    LET lo == x[2] + y[2]
    IN  <<(x[1] + y[1] + (lo \div Half)) % Half, lo % Half>>

\* the full 32-bit product of two 16-bit numbers
Mul16(x, y) ==
    LET p1 == x * (y \div 256)
        p0 == x * (y % 256)
        q  == (p1 % 256) * 256 + p0
    IN  <<(p1 \div 256 + q \div Half) % Half, q % Half>>

\* Math.imul: the low 32 bits of the product
Imul(x, y) ==
    LET ll    == Mul16(x[2], y[2])
        cross == (Mul16(x[1], y[2])[2] + Mul16(x[2], y[1])[2]) % Half
    IN  <<(ll[1] + cross) % Half, ll[2]>>

\* seed | 0 for a non-negative integer seed below 2^31
ToInt32(n) == <<(n \div Half) % Half, n % Half>>

----------------------------------------------------------------------------
(* SeededRandom *)

\* one generator shared by all calls and never re-seeded
SeededRandom_Shared(seed) == rngState

SeededRandom(seed) == ToInt32(seed)

\* next(): the new state and the 32-bit numerator u of the float u / 2^32
RngNext(s) ==
    LET Out(st, t) == [rng |-> st, u |-> Xor32(t, Shr32(t, 16384))]
        Mix2(st, t) ==
            Only({Out(st, t2) :
                  t2 \in {Xor32(Add32(t, Imul(Xor32(t, Shr32(t, 128)),
                                               Or32(<<0, 61>>, t))), t)}})
        Mix1(st) ==
            Only({Mix2(st, t1) :
                  t1 \in {Imul(Xor32(st, Shr32(st, 32768)),
                                Or32(<<0, 1>>, st))}})
    IN  Only({Mix1(v) :
              v \in {Add32(s, <<27947, 31221>>)}})        \* 0x6d2b79f5

\* Math.floor(next() * n) for a small positive integer n
FloorMul(u, n) == (u[1] * n + ((u[2] * n) \div Half)) \div Half

\* pick(arr): arr[Math.floor(next() * arr.length)]
RngPick(s, arr) ==
    LET At(d) == [rng |-> d.rng, val |-> arr[FloorMul(d.u, Len(arr)) + 1]]
    IN  Only({At(v) :
              v \in {RngNext(s)}})

----------------------------------------------------------------------------
(* Data model *)

Square == "square"
HST == "hst"
QST == "qst"
HSTSplit == "hst-split"

\* Object.values(ShapeType), in declaration order
ShapeType == <<Square, HST, QST, HSTSplit>>

ModeNone == "none"
Horizontal == "horizontal"
Vertical == "vertical"
FourWay == "four-way"
DiagonalTLBR == "diagonal-tlbr"
DiagonalTRBL == "diagonal-trbl"
Rotational == "rotational"

SymmetryMode ==
    {ModeNone, Horizontal, Vertical, FourWay, DiagonalTLBR, DiagonalTRBL,
     Rotational}

Rotations == <<0, 90, 180, 270>>

Block(shape, colors, rotation) ==
    [shape |-> shape, colors |-> colors, rotation |-> rotation]

\* the number of colour slots each shape draws
SlotCount(shape) ==
    CASE shape = Square -> 1
      [] shape = HST -> 2
      [] shape = QST -> 4
      [] shape = HSTSplit -> 3

\* String.prototype.toUpperCase on the colour identifiers of the model
ToUpperCase(c) ==
    CASE c = "#ff0000" -> "#FF0000"
      [] c = "#00ff00" -> "#00FF00"
      [] c = "#0000ff" -> "#0000FF"
      [] OTHER -> c

\* a === b: the comparison without toUpperCase
colorEq_CaseSensitive(a, b) == a = b

\* a.toUpperCase() === b.toUpperCase()
colorEq(a, b) == ToUpperCase(a) = ToUpperCase(b)

----------------------------------------------------------------------------
(* palette.ts *)

\* the first built-in palette, cut to its first three colours
BASE_PALETTES ==
    << [name |-> "Earthy", colors |-> <<"#8B4513", "#D2691E", "#DEB887">>] >>

getAllPalettes(custom) == BASE_PALETTES \o custom

----------------------------------------------------------------------------
(* layout.ts: shape pool and random blocks *)

\* the loop bound off by one: for (let i = 0; i <= weight; i++)
RECURSIVE Repeat_OffByOne(_, _)
Repeat_OffByOne(x, n) ==
    IF n < 0 THEN <<>> ELSE <<x>> \o Repeat_OffByOne(x, n - 1)

\* for (let i = 0; i < weight; i++) pool.push(shape)
RECURSIVE Repeat(_, _)
Repeat(x, n) == IF n <= 0 THEN <<>> ELSE <<x>> \o Repeat(x, n - 1)

RECURSIVE PoolFrom(_, _)
PoolFrom(st, i) ==
    IF i > Len(ShapeType) THEN <<>>
    ELSE (IF st.enabledShapes[ShapeType[i]]
          THEN Repeat(ShapeType[i], st.shapeRatios[ShapeType[i]])
          ELSE <<>>) \o PoolFrom(st, i + 1)

\* the fallback pushing the wrong shape
buildWeightedShapePool_FallbackHST(st) ==
    LET p == PoolFrom(st, 1)
    IN  IF Len(p) = 0 THEN <<HST>> ELSE p

buildWeightedShapePool(st) ==
    LET p == PoolFrom(st, 1)
    IN  IF Len(p) = 0 THEN <<Square>> ELSE p

\* the colour picks of randomBlock: n picks from the palette slice, in order
RECURSIVE PickColors(_, _, _)
PickColors(s, colors, n) ==
    IF n = 0 THEN [rng |-> s, val |-> <<>>]
    ELSE LET Push(v, r) == [val |-> <<v>> \o r.val, rng |-> r.rng]
             Then(d) ==
                 Only({Push(d.val, r) :
                       r \in {PickColors(d.rng, colors, n - 1)}})
         IN  Only({Then(v) :
                   v \in {RngPick(s, colors)}})

randomBlock(s, pl, colors) ==
    LET NumColors(shape) ==
            CASE shape = Square -> 1
              [] shape = HST -> 2
              [] shape = QST -> 4
              [] OTHER -> 1
        Make(sh, rot, cs) ==
            [rng |-> cs.rng, val |-> Block(sh.val, cs.val, rot.val)]
        WithRotation(sh, rot) ==
            Only({Make(sh, rot, cs) :
                  cs \in {PickColors(rot.rng, colors, NumColors(sh.val))}})
        WithShape(sh) ==
            Only({WithRotation(sh, rot) :
                  rot \in {RngPick(sh.rng, Rotations)}})
    IN  Only({WithShape(v) :
              v \in {RngPick(s, pl)}})

----------------------------------------------------------------------------
(* layout.ts: block transforms *)

\* mirrorH with the colour slots exchanged and the rotation kept
mirrorH_KeepRotation(b) ==
    IF b.shape = HST
    THEN Block(b.shape, <<b.colors[2], b.colors[1]>>, b.rotation)
    ELSE IF b.shape = QST
    THEN Block(b.shape,
               <<b.colors[1], b.colors[4], b.colors[3], b.colors[2]>>,
               b.rotation)
    ELSE b

mirrorH(b) ==
    IF b.shape = HST
    THEN Block(b.shape, <<b.colors[2], b.colors[1]>>, (450 - b.rotation) % 360)
    ELSE IF b.shape = QST
    THEN Block(b.shape,
               <<b.colors[1], b.colors[4], b.colors[3], b.colors[2]>>,
               (360 - b.rotation) % 360)
    ELSE b

mirrorV(b) ==
    IF b.shape = HST
    THEN Block(b.shape, b.colors, (90 - b.rotation + 360) % 360)
    ELSE IF b.shape = QST
    THEN Block(b.shape,
               <<b.colors[3], b.colors[2], b.colors[1], b.colors[4]>>,
               (180 - b.rotation + 360) % 360)
    ELSE b

\* a quarter turn in place of the half turn: rotation + 90
rotate180_QuarterTurn(b) ==
    IF b.shape = HST \/ b.shape = QST
    THEN Block(b.shape, b.colors, (b.rotation + 90) % 360)
    ELSE b

rotate180(b) ==
    IF b.shape = HST
    THEN Block(b.shape, b.colors, (b.rotation + 180) % 360)
    ELSE IF b.shape = QST
    THEN Block(b.shape,
               <<b.colors[3], b.colors[4], b.colors[1], b.colors[2]>>,
               (b.rotation + 180) % 360)
    ELSE b

\* rotateCW without the final % 360
rotateCW_NoWrap(b, turns) ==
    LET normalized == ((turns % 4) + 4) % 4
    IN  IF normalized = 0 THEN b
        ELSE Block(b.shape, b.colors, b.rotation + normalized * 90)

rotateCW(b, turns) ==
    LET normalized == ((turns % 4) + 4) % 4
    IN  IF normalized = 0 THEN b
        ELSE Block(b.shape, b.colors, (b.rotation + normalized * 90) % 360)

mirrorDiagTLBR(b) ==
    IF b.shape = HST
    THEN Block(b.shape, <<b.colors[2], b.colors[1]>>,
               (90 - b.rotation + 360) % 360)
    ELSE IF b.shape = QST
    THEN Block(b.shape,
               <<b.colors[4], b.colors[3], b.colors[2], b.colors[1]>>,
               (90 - b.rotation + 360) % 360)
    ELSE b

mirrorDiagTRBL(b) ==
    IF b.shape = HST
    THEN Block(b.shape, <<b.colors[2], b.colors[1]>>,
               (270 - b.rotation + 360) % 360)
    ELSE IF b.shape = QST
    THEN Block(b.shape,
               <<b.colors[2], b.colors[1], b.colors[4], b.colors[3]>>,
               (270 - b.rotation + 360) % 360)
    ELSE b

----------------------------------------------------------------------------
(* shapes.ts: what drawBlock paints *)

\* a picture is the colours of the quarter triangles <<top, right, bottom,
\* left>> of the cell

\* ctx.rotate by a quarter turn, clockwise on the canvas, k times
Turned(p, k) ==
    CASE k % 4 = 0 -> p
      [] k % 4 = 1 -> <<p[4], p[1], p[2], p[3]>>
      [] k % 4 = 2 -> <<p[3], p[4], p[1], p[2]>>
      [] k % 4 = 3 -> <<p[2], p[3], p[4], p[1]>>

drawSquare(swatches) == <<swatches[1], swatches[1], swatches[1], swatches[1]>>

\* bottom-left triangle swatches[0], top-right triangle swatches[1]
drawHST(swatches) == <<swatches[2], swatches[2], swatches[1], swatches[1]>>

\* solid bottom-left half, then the top and the right quarter
drawHSTSplit(swatches) ==
    <<swatches[2], swatches[3], swatches[1], swatches[1]>>

drawQST(swatches) == <<swatches[1], swatches[2], swatches[3], swatches[4]>>

drawBlock(b) ==
    Turned(CASE b.shape = Square -> drawSquare(b.colors)
             [] b.shape = HST -> drawHST(b.colors)
             [] b.shape = QST -> drawQST(b.colors)
             [] b.shape = HSTSplit -> drawHSTSplit(b.colors),
           b.rotation \div 90)

----------------------------------------------------------------------------
(* layout.ts: tile symmetry source lookup *)

Min(a, b) == IF a < b THEN a ELSE b
Max(a, b) == IF a > b THEN a ELSE b

\* Math.floor in place of Math.ceil
CeilHalf_Floor(n) == n \div 2

\* Math.ceil(n / 2) for n >= 0
CeilHalf(n) == (n + 1) \div 2

\* the transform functions getSymmetrySource hands out; the four-way closure
\* carries its captured needsDiag and turns
Transform(fn, needsDiag, turns) ==
    [fn |-> fn, needsDiag |-> needsDiag, turns |-> turns]

Null == [found |-> FALSE, srcRow |-> 0, srcCol |-> 0,
         transform |-> Transform("none", FALSE, 0)]

Source(srcRow, srcCol, transform) ==
    [found |-> TRUE, srcRow |-> srcRow, srcCol |-> srcCol,
     transform |-> transform]

\* source.transform(b)
Apply(t, b) ==
    CASE t.fn = "mirrorH" -> mirrorH(b)
      [] t.fn = "mirrorV" -> mirrorV(b)
      [] t.fn = "mirrorHV" -> mirrorH(mirrorV(b))
      [] t.fn = "rotate180" -> rotate180(b)
      [] t.fn = "mirrorDiagTLBR" -> mirrorDiagTLBR(b)
      [] t.fn = "mirrorDiagTRBL" -> mirrorDiagTRBL(b)
      [] t.fn = "fourWay" ->
           LET Turn(out1) ==
                   IF t.turns # 0 THEN rotateCW(out1, t.turns) ELSE out1
           IN  Turn(IF t.needsDiag THEN mirrorDiagTLBR(b) ELSE b)
      [] OTHER -> b

\* the diagonal test reversed: if (srcRow < srcCol) swap
FourWaySquare_LowerCanonical(row, col, size) ==
    LET Quadrant(half) ==
            IF row < half /\ col >= half THEN 1
            ELSE IF row >= half /\ col >= half THEN 2
            ELSE IF row >= half /\ col < half THEN 3
            ELSE 0
        Result(turns, r0, c0, needsDiag) ==
            IF turns = 0 /\ ~needsDiag THEN Null
            ELSE Source(IF needsDiag THEN c0 ELSE r0,
                        IF needsDiag THEN r0 ELSE c0,
                        Transform("fourWay", needsDiag, turns))
        InTopLeft(turns, r0, c0) == Result(turns, r0, c0, r0 < c0)
        Unrotate(turns) ==
            InTopLeft(turns,
                      CASE turns = 1 -> size - 1 - col
                        [] turns = 2 -> size - 1 - row
                        [] turns = 3 -> col
                        [] OTHER -> row,
                      CASE turns = 1 -> row
                        [] turns = 2 -> size - 1 - col
                        [] turns = 3 -> size - 1 - row
                        [] OTHER -> col)
    IN  Unrotate(Quadrant(CeilHalf(size)))

FourWaySquare(row, col, size) ==
    LET Quadrant(half) ==
            IF row < half /\ col >= half THEN 1
            ELSE IF row >= half /\ col >= half THEN 2
            ELSE IF row >= half /\ col < half THEN 3
            ELSE 0
        Result(turns, r0, c0, needsDiag) ==
            IF turns = 0 /\ ~needsDiag THEN Null
            ELSE Source(IF needsDiag THEN c0 ELSE r0,
                        IF needsDiag THEN r0 ELSE c0,
                        Transform("fourWay", needsDiag, turns))
        InTopLeft(turns, r0, c0) == Result(turns, r0, c0, r0 > c0)
        Unrotate(turns) ==
            InTopLeft(turns,
                      CASE turns = 1 -> size - 1 - col
                        [] turns = 2 -> size - 1 - row
                        [] turns = 3 -> col
                        [] OTHER -> row,
                      CASE turns = 1 -> row
                        [] turns = 2 -> size - 1 - col
                        [] turns = 3 -> size - 1 - row
                        [] OTHER -> col)
    IN  Unrotate(Quadrant(CeilHalf(size)))

\* the diagonal comparisons off by one: col > row, and row + col <= dim
getSymmetrySource_OffByOne(row, col, tileW, tileH, mode) ==
    LET halfW == CeilHalf(tileW)
        halfH == CeilHalf(tileH)
        dim   == Min(tileW, tileH)
    IN  CASE mode = ModeNone -> Null
          [] mode = Horizontal ->
               IF col < halfW THEN Null
               ELSE Source(row, tileW - 1 - col,
                           Transform("mirrorH", FALSE, 0))
          [] mode = Vertical ->
               IF row < halfH THEN Null
               ELSE Source(tileH - 1 - row, col,
                           Transform("mirrorV", FALSE, 0))
          [] mode = FourWay ->
               IF tileW # tileH
               THEN IF row < halfH /\ col < halfW THEN Null
                    ELSE LET srcRow == IF row < halfH THEN row
                                       ELSE tileH - 1 - row
                             srcCol == IF col < halfW THEN col
                                       ELSE tileW - 1 - col
                         IN  IF col >= halfW /\ row < halfH
                             THEN Source(srcRow, srcCol,
                                         Transform("mirrorH", FALSE, 0))
                             ELSE IF col < halfW /\ row >= halfH
                             THEN Source(srcRow, srcCol,
                                         Transform("mirrorV", FALSE, 0))
                             ELSE Source(srcRow, srcCol,
                                         Transform("mirrorHV", FALSE, 0))
               ELSE FourWaySquare(row, col, tileW)
          [] mode = DiagonalTLBR ->
               IF col > row THEN Null
               ELSE IF row >= dim THEN Null
               ELSE Source(col, row, Transform("mirrorDiagTLBR", FALSE, 0))
          [] mode = DiagonalTRBL ->
               IF row + col <= dim THEN Null
               ELSE LET sr == dim - 1 - col
                        sc == dim - 1 - row
                    IN  IF sr < 0 \/ sc < 0 \/ sr >= tileH \/ sc >= tileW
                        THEN Null
                        ELSE Source(sr, sc,
                                    Transform("mirrorDiagTRBL", FALSE, 0))
          [] mode = Rotational ->
               IF row < halfH THEN Null
               ELSE IF tileH % 2 = 1 /\ row = halfH - 1 THEN Null
               ELSE Source(tileH - 1 - row, tileW - 1 - col,
                           Transform("rotate180", FALSE, 0))
          [] OTHER -> Null

\* every mode falling into the Horizontal case
getSymmetrySource_AlwaysHorizontal(row, col, tileW, tileH, mode) ==
    IF col < CeilHalf(tileW) THEN Null
    ELSE Source(row, tileW - 1 - col, Transform("mirrorH", FALSE, 0))

getSymmetrySource(row, col, tileW, tileH, mode) ==
    LET halfW == CeilHalf(tileW)
        halfH == CeilHalf(tileH)
        dim   == Min(tileW, tileH)
    IN  CASE mode = ModeNone -> Null
          [] mode = Horizontal ->
               IF col < halfW THEN Null
               ELSE Source(row, tileW - 1 - col,
                           Transform("mirrorH", FALSE, 0))
          [] mode = Vertical ->
               IF row < halfH THEN Null
               ELSE Source(tileH - 1 - row, col,
                           Transform("mirrorV", FALSE, 0))
          [] mode = FourWay ->
               IF tileW # tileH
               THEN IF row < halfH /\ col < halfW THEN Null
                    ELSE LET srcRow == IF row < halfH THEN row
                                       ELSE tileH - 1 - row
                             srcCol == IF col < halfW THEN col
                                       ELSE tileW - 1 - col
                         IN  IF col >= halfW /\ row < halfH
                             THEN Source(srcRow, srcCol,
                                         Transform("mirrorH", FALSE, 0))
                             ELSE IF col < halfW /\ row >= halfH
                             THEN Source(srcRow, srcCol,
                                         Transform("mirrorV", FALSE, 0))
                             ELSE Source(srcRow, srcCol,
                                         Transform("mirrorHV", FALSE, 0))
               ELSE FourWaySquare(row, col, tileW)
          [] mode = DiagonalTLBR ->
               IF col >= row THEN Null
               ELSE IF row >= dim THEN Null
               ELSE Source(col, row, Transform("mirrorDiagTLBR", FALSE, 0))
          [] mode = DiagonalTRBL ->
               IF row + col < dim THEN Null
               ELSE LET sr == dim - 1 - col
                        sc == dim - 1 - row
                    IN  IF sr < 0 \/ sc < 0 \/ sr >= tileH \/ sc >= tileW
                        THEN Null
                        ELSE Source(sr, sc,
                                    Transform("mirrorDiagTRBL", FALSE, 0))
          [] mode = Rotational ->
               IF row < halfH THEN Null
               ELSE IF tileH % 2 = 1 /\ row = halfH - 1 THEN Null
               ELSE Source(tileH - 1 - row, tileW - 1 - col,
                           Transform("rotate180", FALSE, 0))
          [] OTHER -> Null

----------------------------------------------------------------------------
(* layout.ts: tile generation *)

\* Inside generateTile the tile is held as the sequence of its blocks in
\* row-major order; Cell is tile[row][col] and Rows the array of rows.
Cell(t, tileW, row, col) == t[row * tileW + col + 1]

Rows(t, tileW, tileH) ==
    [row \in 0..(tileH - 1) |->
        [col \in 0..(tileW - 1) |-> Cell(t, tileW, row, col)]]

\* first pass of generateTile: n more blocks, drawn one after the other
RECURSIVE FillBlocks(_, _, _, _)
FillBlocks(s, pl, colors, n) ==
    IF n = 0 THEN [rng |-> s, val |-> <<>>]
    ELSE IF n = 1
    THEN LET One(b) == [val |-> <<b.val>>, rng |-> b.rng]
         IN  Only({One(v) :
                   v \in {randomBlock(s, pl, colors)}})
    ELSE \* the first n \div 2 blocks, then the others from where they ended
         LET Join(first, rest) ==
                 [val |-> first.val \o rest.val, rng |-> rest.rng]
             Then(first) ==
                 Only({Join(first, rest) :
                       rest \in {FillBlocks(first.rng, pl, colors,
                                          n - (n \div 2))}})
         IN  Only({Then(v) :
                   v \in {FillBlocks(s, pl, colors, n \div 2)}})

\* canonicalPositions of ensureAllColorsUsed: the colour slots of the cells
\* without a symmetry source, for the cells lo .. hi - 1 in row-major order
RECURSIVE CanonicalPositions(_, _, _, _, _, _)
CanonicalPositions(t, tileW, tileH, mode, lo, hi) ==
    IF lo >= hi THEN <<>>
    ELSE IF hi = lo + 1
    THEN LET row == lo \div tileW
             col == lo % tileW
         IN  IF getSymmetrySource(row, col, tileW, tileH, mode).found
             THEN <<>>
             ELSE [i \in 1..Len(Cell(t, tileW, row, col).colors) |->
                      [row |-> row, col |-> col, colorIdx |-> i - 1]]
    ELSE CanonicalPositions(t, tileW, tileH, mode, lo, (lo + hi) \div 2)
         \o CanonicalPositions(t, tileW, tileH, mode, (lo + hi) \div 2, hi)

\* paletteColors.filter(c => !usedColors.has(c.toUpperCase()))
RECURSIVE FilterUnused(_, _)
FilterUnused(colors, used) ==
    IF colors = <<>> THEN <<>>
    ELSE (IF ToUpperCase(Head(colors)) \in used THEN <<>>
          ELSE <<Head(colors)>>) \o FilterUnused(Tail(colors), used)

\* the steps i = hi, hi - 1, .., lo of the Fisher-Yates loop, i 0-based
RECURSIVE ShuffleSteps(_, _, _, _)
ShuffleSteps(s, pos, hi, lo) ==
    IF hi < lo THEN [rng |-> s, val |-> pos]
    ELSE IF hi = lo
    THEN LET Swap(r, j) ==
                 [val |-> [pos EXCEPT ![hi + 1] = pos[j + 1],
                                      ![j + 1] = pos[hi + 1]],
                  rng |-> r]
             Draw(d) == Swap(d.rng, FloorMul(d.u, hi + 1))
         IN  Only({Draw(v) :
                   v \in {RngNext(s)}})
    ELSE LET Then(first) ==
                 ShuffleSteps(first.rng, first.val, (hi + lo) \div 2, lo)
         IN  Only({Then(v) :
                   v \in {ShuffleSteps(s, pos, hi, (hi + lo) \div 2 + 1)}})

\* the Fisher-Yates loop, for (i = length - 1; i > 0; i--), with i 0-based
Shuffle(s, pos, i) == ShuffleSteps(s, pos, i, 1)

\* tile[pos.row][pos.col].colors[pos.colorIdx] = unusedColors[i], from i on
RECURSIVE AssignUnused(_, _, _, _, _)
AssignUnused(t, tileW, pos, unused, i) ==
    IF i > Len(unused) \/ i > Len(pos) THEN t
    ELSE AssignUnused(
           [t EXCEPT ![pos[i].row * tileW + pos[i].col + 1]
                        .colors[pos[i].colorIdx + 1] = unused[i]],
           tileW, pos, unused, i + 1)

ensureAllColorsUsed(t, colors, s, tileW, tileH, mode) ==
    LET usedColors(positions) ==
            {ToUpperCase(Cell(t, tileW, positions[i].row, positions[i].col)
                          .colors[positions[i].colorIdx + 1]) :
                 i \in 1..Len(positions)}
        Assign(shuffled, unusedColors) ==
            [rng |-> shuffled.rng,
             val |-> AssignUnused(t, tileW, shuffled.val, unusedColors, 1)]
        Force(positions, unusedColors) ==
            IF Len(unusedColors) = 0 THEN [rng |-> s, val |-> t]
            ELSE Only({Assign(shuffled, unusedColors) :
                       shuffled \in {Shuffle(s, positions, Len(positions) - 1)}})
        From(positions) ==
            Only({Force(positions, unusedColors) :
                  unusedColors \in {FilterUnused(colors, usedColors(positions))}})
    IN  Only({From(v) :
              v \in {CanonicalPositions(t, tileW, tileH, mode, 0, tileW * tileH)}})

\* the test negated: rng.next() * 100 >= symmetry
UseSymmetry_Negated(u, symmetry) == FloorMul(u, 100) >= symmetry

\* rng.next() * 100 < symmetry, for an integer symmetry
UseSymmetry(u, symmetry) == FloorMul(u, 100) < symmetry

\* the second pass writing the wrong way round: the source cell receives the
\* transform of the derived cell
RECURSIVE SymmetryPass_WritesSource(_, _, _, _, _, _, _, _)
SymmetryPass_WritesSource(t, s, tileW, tileH, symmetry, mode, lo, hi) ==
    IF lo >= hi THEN [rng |-> s, val |-> t]
    ELSE IF hi = lo + 1
    THEN LET Derive(source, d) ==
                 IF UseSymmetry(d.u, symmetry)
                 THEN [val |-> [t EXCEPT ![source.srcRow * tileW
                                           + source.srcCol + 1] =
                                   Apply(source.transform, t[lo + 1])],
                       rng |-> d.rng]
                 ELSE [val |-> t, rng |-> d.rng]
             Visit(source) ==
                 IF ~source.found THEN [val |-> t, rng |-> s]
                 ELSE Only({Derive(source, d) :
                            d \in {RngNext(s)}})
         IN  Only({Visit(v) :
                   v \in {getSymmetrySource(lo \div tileW, lo % tileW,
                                            tileW, tileH, mode)}})
    ELSE LET Then(first) ==
                 SymmetryPass_WritesSource(first.val, first.rng, tileW, tileH,
                                           symmetry, mode, (lo + hi) \div 2,
                                           hi)
         IN  Only({Then(v) :
                   v \in {SymmetryPass_WritesSource(t, s, tileW, tileH,
                                                    symmetry, mode, lo,
                                                    (lo + hi) \div 2)}})

\* second pass of generateTile, for the cells lo .. hi - 1 in row-major order
RECURSIVE SymmetryPass(_, _, _, _, _, _, _, _)
SymmetryPass(t, s, tileW, tileH, symmetry, mode, lo, hi) ==
    IF lo >= hi THEN [rng |-> s, val |-> t]
    ELSE IF hi = lo + 1
    THEN LET Derive(source, d) ==
                 IF UseSymmetry(d.u, symmetry)
                 THEN [val |-> [t EXCEPT ![lo + 1] =
                                   Apply(source.transform,
                                         Cell(t, tileW, source.srcRow,
                                              source.srcCol))],
                       rng |-> d.rng]
                 ELSE [val |-> t, rng |-> d.rng]
             Visit(source) ==
                 IF ~source.found THEN [val |-> t, rng |-> s]
                 ELSE Only({Derive(source, d) :
                            d \in {RngNext(s)}})
         IN  Only({Visit(v) :
                   v \in {getSymmetrySource(lo \div tileW, lo % tileW,
                                            tileW, tileH, mode)}})
    ELSE LET Then(first) ==
                 SymmetryPass(first.val, first.rng, tileW, tileH, symmetry,
                              mode, (lo + hi) \div 2, hi)
         IN  Only({Then(v) :
                   v \in {SymmetryPass(t, s, tileW, tileH, symmetry, mode,
                                       lo, (lo + hi) \div 2)}})

\* generateTile, with the tile as it stood after each pass
generateTile(tileW, tileH, symmetry, mode, s, pl, colors, exactColors) ==
    LET Out(fill, exact, sym) ==
            [rng |-> sym.rng, filled |-> Rows(fill.val, tileW, tileH),
             forced |-> Rows(exact.val, tileW, tileH),
             tile |-> Rows(sym.val, tileW, tileH)]
        Second(fill, exact) ==
            Only({Out(fill, exact, sym) :
                  sym \in {IF mode = ModeNone THEN exact
                          ELSE SymmetryPass(exact.val, exact.rng, tileW, tileH,
                                            symmetry, mode, 0,
                                            tileW * tileH)}})
        Exact(fill) ==
            Only({Second(fill, exact) :
                  exact \in {IF exactColors
                            THEN ensureAllColorsUsed(fill.val, colors,
                                                     fill.rng, tileW, tileH,
                                                     mode)
                            ELSE fill}})
    IN  Only({Exact(v) :
              v \in {FillBlocks(s, pl, colors, tileW * tileH)}})

\* palette.colors.slice(0, colorCount)
Slice(seq, n) == [i \in 1..Min(n, Len(seq)) |-> seq[i]]

TileWidth(st) ==
    IF st.repeatWidth > 0 THEN Min(st.repeatWidth, st.gridWidth)
    ELSE st.gridWidth

TileHeight(st) ==
    IF st.repeatHeight > 0 THEN Min(st.repeatHeight, st.gridHeight)
    ELSE st.gridHeight

\* the whole palette, paletteColorCount ignored
PaletteColors_WholePalette(st) ==
    LET Select(palettes) ==
            palettes[(st.paletteIndex % Len(palettes)) + 1].colors
    IN  Select(getAllPalettes(st.customPalettes))

PaletteColors(st) ==
    LET Cut(palette) ==
            Slice(palette.colors,
                  Max(1, Min(st.paletteColorCount, Len(palette.colors))))
        Select(palettes) == Cut(palettes[(st.paletteIndex % Len(palettes)) + 1])
    IN  Select(getAllPalettes(st.customPalettes))

\* the tile clamped at its last row and column instead of repeated
TileGrid_Clamped(t, gridWidth, gridHeight, tileW, tileH) ==
    [row \in 0..(gridHeight - 1) |->
        [col \in 0..(gridWidth - 1) |->
            t[Min(row, tileH - 1)][Min(col, tileW - 1)]]]

\* grid[row][col] = tile[row % tileH][col % tileW]
TileGrid(t, gridWidth, gridHeight, tileW, tileH) ==
    [row \in 0..(gridHeight - 1) |->
        [col \in 0..(gridWidth - 1) |-> t[row % tileH][col % tileW]]]

generateGrid(st) ==
    LET Out(colors, pl, tileW, tileH, gen) ==
            [rng |-> gen.rng, pool |-> pl, paletteColors |-> colors,
             filled |-> gen.filled, forced |-> gen.forced, tile |-> gen.tile,
             grid |-> TileGrid(gen.tile, st.gridWidth, st.gridHeight,
                               tileW, tileH)]
        Generate(in) ==
            Only({Out(in.colors, in.pool, in.tileW, in.tileH, gen) :
                  gen \in {generateTile(in.tileW, in.tileH, st.symmetry,
                                       st.symmetryMode, in.rng, in.pool,
                                       in.colors, in.exactColors)}})
    IN  Only({Generate(v) :
              v \in {[rng |-> SeededRandom(st.seed),
                      colors |-> PaletteColors(st),
                      pool |-> buildWeightedShapePool(st),
                      exactColors |-> st.colorCountMode = "exact",
                      tileW |-> TileWidth(st), tileH |-> TileHeight(st)]}})

----------------------------------------------------------------------------
(* community.ts: block simplification *)

\* simplifyBlock without the test for four equal colours
simplifyBlock_NoAllSame(block) ==
    LET top    == block.colors[1]
        right  == block.colors[2]
        bottom == block.colors[3]
        left   == block.colors[4]
    IN  IF block.shape = HST /\ colorEq(block.colors[1], block.colors[2])
        THEN Block(Square, <<block.colors[1]>>, 0)
        ELSE IF block.shape # QST THEN block
        ELSE IF colorEq(top, right) /\ colorEq(bottom, left)
        THEN Block(HST, <<bottom, top>>, 0)
        ELSE IF colorEq(top, left) /\ colorEq(right, bottom)
        THEN Block(HST, <<left, right>>, 90)
        ELSE block

simplifyBlock(block) ==
    LET top    == block.colors[1]
        right  == block.colors[2]
        bottom == block.colors[3]
        left   == block.colors[4]
    IN  IF block.shape = HST /\ colorEq(block.colors[1], block.colors[2])
        THEN Block(Square, <<block.colors[1]>>, 0)
        ELSE IF block.shape # QST THEN block
        ELSE IF colorEq(top, right) /\ colorEq(right, bottom)
                /\ colorEq(bottom, left)
        THEN Block(Square, <<top>>, 0)
        ELSE IF colorEq(top, right) /\ colorEq(bottom, left)
        THEN Block(HST, <<bottom, top>>, 0)
        ELSE IF colorEq(top, left) /\ colorEq(right, bottom)
        THEN Block(HST, <<left, right>>, 90)
        ELSE IF colorEq(top, right) /\ colorEq(right, bottom)
                /\ ~colorEq(bottom, left)
        THEN Block(HST, <<left, top>>, 270)
        ELSE IF colorEq(right, bottom) /\ colorEq(bottom, left)
                /\ ~colorEq(left, top)
        THEN Block(HST, <<top, right>>, 0)
        ELSE IF colorEq(bottom, left) /\ colorEq(left, top)
                /\ ~colorEq(top, right)
        THEN Block(HST, <<right, bottom>>, 90)
        ELSE IF colorEq(left, top) /\ colorEq(top, right)
                /\ ~colorEq(right, bottom)
        THEN Block(HST, <<bottom, top>>, 180)
        ELSE IF colorEq(bottom, left) /\ ~colorEq(top, right)
        THEN Block(HSTSplit, <<bottom, top, right>>, 0)
        ELSE IF colorEq(top, left) /\ ~colorEq(right, bottom)
        THEN Block(HSTSplit, <<top, right, bottom>>, 90)
        ELSE IF colorEq(top, right) /\ ~colorEq(bottom, left)
        THEN Block(HSTSplit, <<top, bottom, left>>, 180)
        ELSE IF colorEq(right, bottom) /\ ~colorEq(left, top)
        THEN Block(HSTSplit, <<right, left, top>>, 270)
        ELSE block

\* grid.map(row => row.map(block => simplifyBlock(block)))
simplifyGrid(g) ==
    [row \in DOMAIN g |-> [col \in DOMAIN g[row] |-> simplifyBlock(g[row][col])]]

----------------------------------------------------------------------------
(* The configurations the store can hold *)

ShapeSet == {ShapeType[i] : i \in 1..Len(ShapeType)}

\* defaultState(): the selectable shapes are enabled, HSTSplit is not
DefaultEnabledShapes == [s \in ShapeSet |-> s # HSTSplit]

DefaultShapeRatios == [s \in ShapeSet |-> IF s = HSTSplit THEN 0 ELSE 1]

\* a palette saved by the user, in lower-case hex
CustomPalette ==
    [name |-> "Custom", colors |-> <<"#ff0000", "#00ff00", "#0000ff">>]

AppState(gw, gh, seed, symmetry, mode, enabled, ratios, pi, cc, rw, rh, ccm) ==
    [gridWidth |-> gw, gridHeight |-> gh, seed |-> seed,
     symmetry |-> symmetry, symmetryMode |-> mode,
     enabledShapes |-> enabled, shapeRatios |-> ratios,
     paletteIndex |-> pi, customPalettes |-> <<CustomPalette>>,
     paletteColorCount |-> cc, repeatWidth |-> rw, repeatHeight |-> rh,
     colorCountMode |-> ccm]

Seeds == {42 + 1000 * i : i \in 0..(NumSeeds - 1)}

NoGrid == <<>>

NoBlock == Block("none", <<>>, 0)

\* no transform has been applied yet
NotMirrored ==
    [mirrorH |-> NoBlock, mirrorV |-> NoBlock, mirrorDiagTLBR |-> NoBlock,
     fn |-> "none", turns |-> 0, once |-> NoBlock, twice |-> NoBlock]

\* let redrawTimeout = null; let pendingRedraw = false
NoTimer ==
    /\ redrawTimeout = FALSE
    /\ pendingRedraw = FALSE
    /\ timers = 0
    /\ updates = 0

NothingGenerated ==
    /\ rngState = <<0, 0>>
    /\ calls = 0
    /\ pool = <<>>
    /\ paletteColors = <<>>
    /\ filled = NoGrid
    /\ forced = NoGrid
    /\ tile = NoGrid
    /\ grid = NoGrid
    /\ prevGrid = NoGrid
    /\ shown = NoGrid
    /\ shownTwice = NoGrid
    /\ srcBlock = NoBlock
    /\ mirrored = NotMirrored
    /\ NoTimer

\* symmetry engine: every mode on every tile size, the repeat unit being the
\* whole grid
Init ==
    /\ \E gw \in 1..MaxTile, gh \in 1..MaxTile, seed \in Seeds,
          symmetry \in {0, 50, 100}, mode \in SymmetryMode,
          cc \in 2..3, ccm \in {"max", "exact"} :
         state = AppState(gw, gh, seed, symmetry, mode, DefaultEnabledShapes,
                          DefaultShapeRatios, 0, cc, 0, 0, ccm)
    /\ NothingGenerated

\* shape pool: every combination of flags and weights, HSTSplit included,
\* as a loaded design can set them
InitPool ==
    /\ \E enabled \in [ShapeSet -> BOOLEAN],
          ratios \in [ShapeSet -> (-1)..MaxWeight] :
         state = AppState(2, 1, 42, 100, ModeNone, enabled, ratios,
                          0, 3, 0, 0, "max")
    /\ NothingGenerated

\* tiling: every grid size against every repeat size (0 = no repeat)
InitTiling ==
    /\ \E gw \in 1..MaxGrid, gh \in 1..MaxGrid,
          rw \in 0..(MaxGrid + 1), rh \in 0..(MaxGrid + 1),
          mode \in {ModeNone, Rotational} :
         state = AppState(gw, gh, 42, 100, mode, DefaultEnabledShapes,
                          DefaultShapeRatios, 1, 2, rw, rh, "max")
    /\ NothingGenerated

\* resolver: every mode on every tile size up to MaxGrid, square or not, at
\* full strength
InitResolver ==
    /\ \E gw \in 1..MaxGrid, gh \in 1..MaxGrid, mode \in SymmetryMode,
          ccm \in {"max", "exact"} :
         state = AppState(gw, gh, 42, 100, mode, DefaultEnabledShapes,
                          DefaultShapeRatios, 0, 3, 0, 0, ccm)
    /\ NothingGenerated

\* palette slice: every colour count from below 1 to above the palette
\* length, on either palette
InitPalette ==
    /\ \E gw \in 1..2, gh \in 1..2, seed \in Seeds, mode \in SymmetryMode,
          pi \in 0..1, cc \in (-1)..5, ccm \in {"max", "exact"} :
         state = AppState(gw, gh, seed, 100, mode, DefaultEnabledShapes,
                          DefaultShapeRatios, pi, cc, 0, 0, ccm)
    /\ NothingGenerated

\* a loaded design whose symmetryMode is none of the defined values
UnknownModes == {"spiral", "kaleidoscope"}

InitUnknownMode ==
    /\ \E gw \in 1..MaxTile, gh \in 1..MaxTile, seed \in Seeds,
          symmetry \in {0, 50, 100}, mode \in UnknownModes,
          cc \in 2..3, ccm \in {"max", "exact"} :
         state = AppState(gw, gh, seed, symmetry, mode, DefaultEnabledShapes,
                          DefaultShapeRatios, 0, cc, 0, 0, ccm)
    /\ NothingGenerated

\* symmetry strength: the same seeds and tiles under five strengths
Strengths == {0, 25, 50, 75, 100}

InitStrength ==
    /\ \E gw \in 2..3, gh \in 2..3, seed \in {42, 1042},
          symmetry \in Strengths, mode \in SymmetryMode \ {ModeNone},
          ccm \in {"max", "exact"} :
         state = AppState(gw, gh, seed, symmetry, mode, DefaultEnabledShapes,
                          DefaultShapeRatios, 0, 3, 0, 0, ccm)
    /\ NothingGenerated

\* throttle: the page after loading, nothing drawn and no timer started
InitThrottle ==
    /\ \E seed \in Seeds :
         state = AppState(2, 2, seed, 100, FourWay, DefaultEnabledShapes,
                          DefaultShapeRatios, 0, 3, 0, 0, "exact")
    /\ NothingGenerated

\* simplifier: a grid of one arbitrary valid block; two colours differ only
\* in letter case
SimplifyColors == {"#ff0000", "#FF0000", "#00ff00", "#0000ff", "#8B4513"}

ValidBlocks ==
    UNION {{Block(ShapeType[i], cs, r) :
               cs \in [1..SlotCount(ShapeType[i]) -> SimplifyColors],
               r \in {0, 90, 180, 270}} : i \in 1..Len(ShapeType)}

InitSimplify ==
    /\ state = AppState(1, 1, 42, 100, ModeNone, DefaultEnabledShapes,
                        DefaultShapeRatios, 0, 3, 0, 0, "max")
    /\ rngState = <<0, 0>>
    /\ calls = 0
    /\ pool = <<>>
    /\ paletteColors = <<>>
    /\ filled = NoGrid
    /\ forced = NoGrid
    /\ tile = NoGrid
    /\ \E b \in ValidBlocks : grid = [row \in 0..0 |-> [col \in 0..0 |-> b]]
    /\ prevGrid = NoGrid
    /\ shown = NoGrid
    /\ shownTwice = NoGrid
    /\ srcBlock = NoBlock
    /\ mirrored = NotMirrored
    /\ NoTimer

\* transforms: one arbitrary Square, HST or QST block of the palette colours
\* at a quarter-turn rotation
TransformColors == {"#8B4513", "#D2691E", "#DEB887", "#ff0000"}

TransformBlocks ==
    UNION {{Block(shape, cs, Rotations[r]) :
               cs \in [1..SlotCount(shape) -> TransformColors],
               r \in 1..Len(Rotations)} : shape \in {Square, HST, QST}}

InitTransform ==
    /\ state = AppState(1, 1, 42, 100, ModeNone, DefaultEnabledShapes,
                        DefaultShapeRatios, 0, 3, 0, 0, "max")
    /\ rngState = <<0, 0>>
    /\ calls = 0
    /\ pool = <<>>
    /\ paletteColors = <<>>
    /\ filled = NoGrid
    /\ forced = NoGrid
    /\ tile = NoGrid
    /\ grid = NoGrid
    /\ prevGrid = NoGrid
    /\ shown = NoGrid
    /\ shownTwice = NoGrid
    /\ srcBlock \in TransformBlocks
    /\ mirrored = NotMirrored
    /\ NoTimer

----------------------------------------------------------------------------
(* Operations *)

\* redraw(): rawGrid = generateGrid(store.get()), then
\* currentGrid = simplifyGrid(rawGrid)
Redraw ==
    /\ calls < MaxCalls
    /\ \E out \in {generateGrid(state)} :
           /\ rngState' = out.rng
           /\ pool' = out.pool
           /\ paletteColors' = out.paletteColors
           /\ filled' = out.filled
           /\ forced' = out.forced
           /\ tile' = out.tile
           /\ grid' = out.grid
           /\ shown' = simplifyGrid(out.grid)
    /\ prevGrid' = grid
    /\ calls' = calls + 1
    /\ UNCHANGED <<state, shownTwice, srcBlock, mirrored, throttle>>

\* simplifyGrid applied to a grid
SimplifyGrid ==
    /\ grid # NoGrid
    /\ shown = NoGrid
    /\ shown' = simplifyGrid(grid)
    /\ UNCHANGED <<state, rngState, calls, pool, paletteColors, filled,
                   forced, tile, grid, prevGrid, shownTwice, srcBlock,
                   mirrored, throttle>>

\* simplifyGrid applied to its own result
SimplifyAgain ==
    /\ shown # NoGrid
    /\ shownTwice = NoGrid
    /\ shownTwice' = simplifyGrid(shown)
    /\ UNCHANGED <<state, rngState, calls, pool, paletteColors, filled,
                   forced, tile, grid, prevGrid, shown, srcBlock, mirrored,
                   throttle>>

\* source.transform(block) with transform = mirrorH
MirrorH ==
    /\ srcBlock # NoBlock
    /\ mirrored.mirrorH = NoBlock
    /\ mirrored' = [mirrored EXCEPT
                       !.mirrorH = Apply(Transform("mirrorH", FALSE, 0),
                                         srcBlock)]
    /\ UNCHANGED <<state, rngState, calls, pool, paletteColors, filled,
                   forced, tile, grid, prevGrid, shown, shownTwice, srcBlock,
                   throttle>>

\* source.transform(block) with transform = mirrorV
MirrorV ==
    /\ srcBlock # NoBlock
    /\ mirrored.mirrorV = NoBlock
    /\ mirrored' = [mirrored EXCEPT
                       !.mirrorV = Apply(Transform("mirrorV", FALSE, 0),
                                         srcBlock)]
    /\ UNCHANGED <<state, rngState, calls, pool, paletteColors, filled,
                   forced, tile, grid, prevGrid, shown, shownTwice, srcBlock,
                   throttle>>

\* source.transform(block) with transform = mirrorDiagTLBR
MirrorDiagTLBR ==
    /\ srcBlock # NoBlock
    /\ mirrored.mirrorDiagTLBR = NoBlock
    /\ mirrored' = [mirrored EXCEPT
                       !.mirrorDiagTLBR =
                           Apply(Transform("mirrorDiagTLBR", FALSE, 0),
                                 srcBlock)]
    /\ UNCHANGED <<state, rngState, calls, pool, paletteColors, filled,
                   forced, tile, grid, prevGrid, shown, shownTwice, srcBlock,
                   throttle>>

\* the exported transforms by name; rotateCW takes its number of turns
TransformNames ==
    {"mirrorH", "mirrorV", "rotate180", "rotateCW", "mirrorDiagTLBR",
     "mirrorDiagTRBL"}

\* the turns rotateCW is called with, negative ones included
TurnValues == (-5)..5

\* fn(b), or rotateCW(b, turns)
Call(fn, turns, b) ==
    IF fn = "rotateCW" THEN rotateCW(b, turns)
    ELSE Apply(Transform(fn, FALSE, 0), b)

\* one transform applied to the block
TransformOnce ==
    /\ srcBlock # NoBlock
    /\ mirrored.once = NoBlock
    /\ \E fn \in TransformNames :
         \E turns \in IF fn = "rotateCW" THEN TurnValues ELSE {0} :
         mirrored' = [mirrored EXCEPT !.fn = fn, !.turns = turns,
                                      !.once = Call(fn, turns, srcBlock)]
    /\ UNCHANGED <<state, rngState, calls, pool, paletteColors, filled,
                   forced, tile, grid, prevGrid, shown, shownTwice, srcBlock,
                   throttle>>

\* the same transform applied to its own result
TransformTwice ==
    /\ mirrored.once # NoBlock
    /\ mirrored.twice = NoBlock
    /\ mirrored' = [mirrored EXCEPT
                       !.twice = Call(mirrored.fn, mirrored.turns,
                                      mirrored.once)]
    /\ UNCHANGED <<state, rngState, calls, pool, paletteColors, filled,
                   forced, tile, grid, prevGrid, shown, shownTwice, srcBlock,
                   throttle>>

\* redraw() with store.get() = st, currentMode being "random"
RedrawWith(st) ==
    /\ \E out \in {generateGrid(st)} :
           /\ rngState' = out.rng
           /\ pool' = out.pool
           /\ paletteColors' = out.paletteColors
           /\ filled' = out.filled
           /\ forced' = out.forced
           /\ tile' = out.tile
           /\ grid' = out.grid
           /\ shown' = simplifyGrid(out.grid)
    /\ prevGrid' = grid
    /\ calls' = calls + 1
    /\ UNCHANGED <<shownTwice, srcBlock, mirrored>>

\* scheduleRedraw without the pendingRedraw flag: a call made while the timer
\* runs is dropped
ScheduleRedraw_Drops(st, timeout, pending, running) ==
    IF timeout
    THEN /\ pendingRedraw' = pending
         /\ redrawTimeout' = timeout
         /\ timers' = running
         /\ UNCHANGED <<rngState, calls, pool, paletteColors, filled, forced,
                        tile, grid, prevGrid, shown, shownTwice, srcBlock,
                        mirrored>>
    ELSE /\ RedrawWith(st)
         /\ redrawTimeout' = TRUE
         /\ timers' = running + 1
         /\ pendingRedraw' = pending

\* scheduleRedraw() entered with redrawTimeout = timeout, pendingRedraw =
\* pending, store.get() = st and running timers not yet fired
ScheduleRedraw(st, timeout, pending, running) ==
    IF timeout
    THEN /\ pendingRedraw' = TRUE
         /\ redrawTimeout' = timeout
         /\ timers' = running
         /\ UNCHANGED <<rngState, calls, pool, paletteColors, filled, forced,
                        tile, grid, prevGrid, shown, shownTwice, srcBlock,
                        mirrored>>
    ELSE /\ RedrawWith(st)
         /\ redrawTimeout' = TRUE
         /\ timers' = running + 1
         /\ pendingRedraw' = pending

\* store.update({seed}): the state is replaced and the subscriber
\* scheduleRedraw is notified
StoreUpdate ==
    /\ updates < MaxUpdates
    /\ \E seed \in Seeds : state' = [state EXCEPT !.seed = seed]
    /\ updates' = updates + 1
    /\ ScheduleRedraw(state', redrawTimeout, pendingRedraw, timers)

\* the setTimeout callback, 16 ms after it was started
TimerFires ==
    /\ timers > 0
    /\ IF pendingRedraw
       THEN ScheduleRedraw(state, FALSE, FALSE, timers - 1)
       ELSE /\ redrawTimeout' = FALSE
            /\ timers' = timers - 1
            /\ UNCHANGED <<pendingRedraw, rngState, calls, pool,
                           paletteColors, filled, forced, tile, grid,
                           prevGrid, shown, shownTwice, srcBlock, mirrored>>
    /\ UNCHANGED <<state, updates>>

Next == Redraw

NextTransform ==
    MirrorH \/ MirrorV \/ MirrorDiagTLBR \/ TransformOnce \/ TransformTwice

NextSimplify == SimplifyGrid \/ SimplifyAgain

NextThrottle == StoreUpdate \/ TimerFires

Spec == Init /\ [][Next]_vars

SpecPool == InitPool /\ [][Next]_vars

SpecTiling == InitTiling /\ [][Next]_vars

SpecResolver == InitResolver /\ [][Next]_vars

SpecPalette == InitPalette /\ [][Next]_vars

SpecUnknownMode == InitUnknownMode /\ [][Next]_vars

SpecStrength == InitStrength /\ [][Next]_vars

SpecThrottle == InitThrottle /\ [][NextThrottle]_vars

SpecSimplify == InitSimplify /\ [][NextSimplify]_vars

SpecTransform == InitTransform /\ [][NextTransform]_vars

----------------------------------------------------------------------------
(* Properties *)

\* the dimensions of the tile of the last call, read off the tile itself
TileH == Cardinality(DOMAIN tile)
TileW == Cardinality(DOMAIN tile[0])

TileCells == {<<row, col>> : row \in 0..(TileH - 1), col \in 0..(TileW - 1)}

SourceOf(cell) ==
    getSymmetrySource(cell[1], cell[2], TileW, TileH, state.symmetryMode)

DerivedCells == {cell \in TileCells : SourceOf(cell).found}

CanonicalCells == TileCells \ DerivedCells

\* C1 (Determinism): a second call of generateGrid on the same configuration
\* returns a grid deep-equal to the grid of the call before it.
Determinism == calls >= 2 => grid = prevGrid

W_Determinism ==
    /\ calls >= 2
    /\ grid = prevGrid
    /\ state.gridWidth >= 2 /\ state.gridHeight >= 2
    /\ state.symmetryMode = FourWay /\ state.symmetry = 50
    /\ state.colorCountMode = "exact"
    /\ rngState # SeededRandom(state.seed)
    /\ \E c1, c2 \in TileCells : tile[c1[1]][c1[2]] # tile[c2[1]][c2[2]]

\* C2 (Shape invariant): every block of the returned grid has as many colours
\* as its shape has slots: 1 for Square, 2 for HST, 4 for QST, 3 for HSTSplit.
ShapeInvariant ==
    calls >= 1 =>
        \A row \in DOMAIN grid : \A col \in DOMAIN grid[row] :
            Len(grid[row][col].colors) = SlotCount(grid[row][col].shape)

\* C3 (Symmetry at strength 100): with symmetry = 100 and a mode other than
\* None, every cell with a symmetry source equals the transform of its source
\* cell, both read from the returned tile.
SymmetryAtStrength100 ==
    (calls >= 1 /\ state.symmetry = 100 /\ state.symmetryMode # ModeNone) =>
        \A cell \in DerivedCells :
            tile[cell[1]][cell[2]] =
                Apply(SourceOf(cell).transform,
                      tile[SourceOf(cell).srcRow][SourceOf(cell).srcCol])

W_SymmetryAtStrength100 ==
    /\ calls >= 1 /\ state.symmetry = 100 /\ state.symmetryMode = FourWay
    /\ TileW = 3 /\ TileH = 3
    /\ \E cell \in DerivedCells :
          /\ tile[cell[1]][cell[2]] # forced[cell[1]][cell[2]]
          /\ tile[cell[1]][cell[2]].shape = QST
          /\ SourceOf(cell).transform.needsDiag
          /\ tile[cell[1]][cell[2]] =
                Apply(SourceOf(cell).transform,
                      tile[SourceOf(cell).srcRow][SourceOf(cell).srcCol])

\* C4 (Symmetry at strength 0): with symmetry = 0 the symmetry pass overwrites
\* no cell: the returned tile is the tile as it stood after the random fill
\* and the exact-colour pass.
SymmetryAtStrength0 ==
    (calls >= 1 /\ state.symmetry = 0) => tile = forced

W_SymmetryAtStrength0 ==
    /\ calls >= 1 /\ state.symmetry = 0 /\ state.symmetryMode # ModeNone
    /\ state.colorCountMode = "exact" /\ forced # filled
    /\ tile = forced
    /\ \E cell \in DerivedCells :
          tile[cell[1]][cell[2]] #
              Apply(SourceOf(cell).transform,
                    tile[SourceOf(cell).srcRow][SourceOf(cell).srcCol])

\* the colours in the slots of the canonical cells of the returned tile
CanonicalColors ==
    UNION {{ToUpperCase(tile[cell[1]][cell[2]].colors[i]) :
               i \in 1..Len(tile[cell[1]][cell[2]].colors)} :
           cell \in CanonicalCells}

RECURSIVE SumSlots(_)
SumSlots(cells) ==
    IF cells = {} THEN 0
    ELSE LET cell == CHOOSE c \in cells : TRUE
         IN  Len(tile[cell[1]][cell[2]].colors) + SumSlots(cells \ {cell})

\* C5 (Exact colour coverage): with the colour-count policy 'exact', every
\* colour of the active palette slice appears in a colour slot of a canonical
\* cell of the returned tile.  Stated for the tiles whose canonical cells have
\* at least as many slots as the slice has colours, where coverage is possible.
ExactColourCoverage ==
    (/\ calls >= 1
     /\ state.colorCountMode = "exact"
     /\ SumSlots(CanonicalCells) >= Len(paletteColors)) =>
        \A i \in 1..Len(paletteColors) :
            ToUpperCase(paletteColors[i]) \in CanonicalColors

\* the tile dimensions as the claim defines them
ClaimedTileW ==
    IF state.repeatWidth > 0
    THEN (IF state.repeatWidth < state.gridWidth THEN state.repeatWidth
          ELSE state.gridWidth)
    ELSE state.gridWidth

ClaimedTileH ==
    IF state.repeatHeight > 0
    THEN (IF state.repeatHeight < state.gridHeight THEN state.repeatHeight
          ELSE state.gridHeight)
    ELSE state.gridHeight

\* C6 (Tiling correctness): the grid has gridHeight rows of gridWidth cells
\* and is periodic with period (tileH, tileW):
\* grid[row][col] = grid[row mod tileH][col mod tileW].
TilingCorrectness ==
    calls >= 1 =>
        /\ DOMAIN grid = 0..(state.gridHeight - 1)
        /\ \A row \in DOMAIN grid :
              /\ DOMAIN grid[row] = 0..(state.gridWidth - 1)
              /\ \A col \in DOMAIN grid[row] :
                    grid[row][col] =
                        grid[row % ClaimedTileH][col % ClaimedTileW]

W_TilingCorrectness ==
    /\ calls >= 1
    /\ state.gridWidth = 3 /\ state.gridHeight = 3
    /\ state.repeatWidth = 2 /\ state.repeatHeight = 2
    /\ grid[0][0] # grid[0][1] /\ grid[0][0] # grid[1][0]
    /\ grid[2][2] = grid[0][0] /\ grid[0][2] = grid[0][0]

\* C7 (Simplifier idempotence): simplifying a simplified grid changes nothing.
SimplifierIdempotence == shownTwice # NoGrid => shownTwice = shown

W_SimplifierIdempotence ==
    /\ shownTwice # NoGrid
    /\ shownTwice = shown
    /\ grid[0][0].shape = QST
    /\ grid[0][0].colors[1] = "#ff0000" /\ grid[0][0].colors[2] = "#FF0000"
    /\ shown[0][0].shape = HSTSplit

\* C8: the pool never contains the derived-only shape HSTSplit.
PoolWithoutHSTSplit ==
    calls >= 1 => \A i \in 1..Len(pool) : pool[i] # HSTSplit

\* the shapes that are enabled with a positive weight
Weighted ==
    {sh \in ShapeSet : state.enabledShapes[sh] /\ state.shapeRatios[sh] > 0}

\* C9: the pool is never empty, and it is [Square] when no shape is enabled
\* with a positive weight.
PoolNeverEmpty ==
    calls >= 1 =>
        /\ Len(pool) >= 1
        /\ (Weighted = {} => pool = <<Square>>)

W_PoolNeverEmpty ==
    /\ calls >= 1
    /\ Weighted = {}
    /\ state.enabledShapes[HST] /\ state.shapeRatios[HST] = 0
    /\ state.enabledShapes[QST] /\ state.shapeRatios[QST] < 0
    /\ ~state.enabledShapes[Square]
    /\ pool = <<Square>>

Occurrences(seq, x) == Cardinality({i \in 1..Len(seq) : seq[i] = x})

\* C10 as claimed: when some enabled shape has a positive weight, each enabled
\* shape occurs exactly weight times in the pool and every other shape never.
PoolCountsAsClaimed ==
    (calls >= 1 /\ Weighted # {}) =>
        \A sh \in ShapeSet :
            Occurrences(pool, sh) =
                IF state.enabledShapes[sh] THEN state.shapeRatios[sh] ELSE 0

\* C10 (amended): when some enabled shape has a positive weight, each enabled
\* shape occurs max(weight, 0) times in the pool, so an enabled shape with a
\* negative weight never occurs, and a disabled shape never occurs.
PoolCounts ==
    (calls >= 1 /\ Weighted # {}) =>
        \A sh \in ShapeSet :
            Occurrences(pool, sh) =
                IF state.enabledShapes[sh]
                THEN Max(state.shapeRatios[sh], 0) ELSE 0

W_PoolCounts ==
    /\ calls >= 1
    /\ state.enabledShapes[Square] /\ state.shapeRatios[Square] = 2
    /\ state.enabledShapes[HST] /\ state.shapeRatios[HST] = -1
    /\ ~state.enabledShapes[QST] /\ state.shapeRatios[QST] = 1
    /\ ~state.enabledShapes[HSTSplit]
    /\ pool = <<Square, Square>>

----------------------------------------------------------------------------
(* Properties of the symmetry resolver *)

\* i < Math.ceil(n / 2), stated without the division
InFirstHalf(i, n) == 2 * i < n

SquareFourWay ==
    calls >= 1 /\ state.symmetryMode = FourWay /\ TileW = TileH

\* the top-left quadrant at or below its main diagonal
LowerTriangle(cell) ==
    /\ InFirstHalf(cell[1], TileH) /\ InFirstHalf(cell[2], TileW)
    /\ cell[1] >= cell[2]

\* the top-left quadrant at or above its main diagonal
UpperTriangle(cell) ==
    /\ InFirstHalf(cell[1], TileH) /\ InFirstHalf(cell[2], TileW)
    /\ cell[1] <= cell[2]

\* C11 as claimed: on a square tile in mode FourWay the resolver returns null
\* exactly for the cells of the top-left quadrant with row >= col, and every
\* other cell has its source in that region.
FourWayCanonicalAsClaimed ==
    SquareFourWay =>
        \A cell \in TileCells :
            IF LowerTriangle(cell) THEN ~SourceOf(cell).found
            ELSE /\ SourceOf(cell).found
                 /\ LowerTriangle(<<SourceOf(cell).srcRow,
                                    SourceOf(cell).srcCol>>)

\* C11 (amended): on a square tile in mode FourWay the resolver returns null
\* exactly for the cells of the top-left quadrant with row <= col (at or
\* above the diagonal), and every other cell has its source in that region.
FourWayCanonical ==
    SquareFourWay =>
        \A cell \in TileCells :
            IF UpperTriangle(cell) THEN ~SourceOf(cell).found
            ELSE /\ SourceOf(cell).found
                 /\ UpperTriangle(<<SourceOf(cell).srcRow,
                                    SourceOf(cell).srcCol>>)

W_FourWayCanonical ==
    /\ SquareFourWay /\ TileW = 4
    /\ ~SourceOf(<<0, 1>>).found
    /\ SourceOf(<<1, 0>>).found
    /\ SourceOf(<<1, 0>>).srcRow = 0 /\ SourceOf(<<1, 0>>).srcCol = 1
    /\ tile[1][0] # forced[1][0]
    /\ tile[1][0] = mirrorDiagTLBR(tile[0][1])

\* C12 (Horizontal resolver): in mode Horizontal a cell is canonical iff
\* col < ceil(tileW / 2); any other cell has source (row, tileW - 1 - col) with
\* transform mirrorH. On a tile 4 wide at strength 100 columns 3 and 2 are the
\* mirrorH images of columns 0 and 1; on an odd width the middle column is
\* canonical and is the source of no other cell.
HorizontalResolver ==
    (calls >= 1 /\ state.symmetryMode = Horizontal) =>
        /\ \A cell \in TileCells :
               IF InFirstHalf(cell[2], TileW) THEN ~SourceOf(cell).found
               ELSE SourceOf(cell) =
                        Source(cell[1], TileW - 1 - cell[2],
                               Transform("mirrorH", FALSE, 0))
        /\ (state.symmetry = 100 /\ TileW = 4) =>
               \A row \in 0..(TileH - 1) :
                   /\ tile[row][3] = mirrorH(tile[row][0])
                   /\ tile[row][2] = mirrorH(tile[row][1])
        /\ TileW % 2 = 1 =>
               \A row \in 0..(TileH - 1) :
                   /\ ~SourceOf(<<row, (TileW - 1) \div 2>>).found
                   /\ \A cell \in DerivedCells :
                          SourceOf(cell).srcCol # (TileW - 1) \div 2

W_HorizontalResolver ==
    /\ calls >= 1 /\ state.symmetryMode = Horizontal /\ state.symmetry = 100
    /\ TileW = 4 /\ TileH = 2
    /\ \E row \in 0..1 :
          /\ tile[row][0].shape # Square
          /\ tile[row][3] # forced[row][3]
          /\ tile[row][3] # tile[row][0]
          /\ tile[row][3] = mirrorH(tile[row][0])

\* C13 (Rotational resolver): in mode Rotational a cell is canonical iff
\* row < ceil(tileH / 2), which for an odd height includes the middle row; any
\* other cell has source (tileH - 1 - row, tileW - 1 - col) with transform
\* rotate180.
RotationalResolver ==
    (calls >= 1 /\ state.symmetryMode = Rotational) =>
        /\ \A cell \in TileCells :
               IF InFirstHalf(cell[1], TileH) THEN ~SourceOf(cell).found
               ELSE SourceOf(cell) =
                        Source(TileH - 1 - cell[1], TileW - 1 - cell[2],
                               Transform("rotate180", FALSE, 0))
        /\ TileH % 2 = 1 =>
               \A col \in 0..(TileW - 1) :
                   ~SourceOf(<<(TileH - 1) \div 2, col>>).found

W_RotationalResolver ==
    /\ calls >= 1 /\ state.symmetryMode = Rotational /\ state.symmetry = 100
    /\ TileH = 3 /\ TileW = 2
    /\ tile[1] = forced[1]
    /\ \E col \in 0..1 :
          /\ tile[2][col] # forced[2][col]
          /\ tile[0][1 - col].shape # Square
          /\ tile[2][col] = rotate180(tile[0][1 - col])

\* dim = min(tileW, tileH) of the tile of the last call
TileDim == IF TileW < TileH THEN TileW ELSE TileH

\* C14 (DiagonalTLBR resolver): in mode DiagonalTLBR a cell is canonical when
\* col >= row or when it lies outside the dim x dim square; any other cell has
\* source (col, row) with transform mirrorDiagTLBR, on square and non-square
\* tiles.
DiagonalTLBRResolver ==
    (calls >= 1 /\ state.symmetryMode = DiagonalTLBR) =>
        \A cell \in TileCells :
            IF cell[2] >= cell[1] \/ cell[1] >= TileDim \/ cell[2] >= TileDim
            THEN ~SourceOf(cell).found
            ELSE SourceOf(cell) =
                     Source(cell[2], cell[1],
                            Transform("mirrorDiagTLBR", FALSE, 0))

W_DiagonalTLBRResolver ==
    /\ calls >= 1 /\ state.symmetryMode = DiagonalTLBR
    /\ state.symmetry = 100
    /\ TileW = 2 /\ TileH = 4
    /\ ~SourceOf(<<2, 0>>).found /\ ~SourceOf(<<3, 1>>).found
    /\ tile[2] = forced[2] /\ tile[3] = forced[3]
    /\ SourceOf(<<1, 0>>).found
    /\ tile[1][0] # forced[1][0]
    /\ tile[1][0] = mirrorDiagTLBR(tile[0][1])

\* C15 (DiagonalTRBL resolver): in mode DiagonalTRBL a cell with
\* row + col < dim is canonical; any other cell has source
\* (dim - 1 - col, dim - 1 - row) with transform mirrorDiagTRBL when that
\* position lies inside the tile, and is canonical when it does not, which is
\* the case of the cells outside the dim x dim square.
DiagonalTRBLResolver ==
    (calls >= 1 /\ state.symmetryMode = DiagonalTRBL) =>
        \A cell \in TileCells :
            /\ IF cell[1] + cell[2] < TileDim THEN ~SourceOf(cell).found
               ELSE IF <<TileDim - 1 - cell[2], TileDim - 1 - cell[1]>>
                          \in TileCells
               THEN SourceOf(cell) =
                        Source(TileDim - 1 - cell[2], TileDim - 1 - cell[1],
                               Transform("mirrorDiagTRBL", FALSE, 0))
               ELSE ~SourceOf(cell).found
            /\ (cell[1] >= TileDim \/ cell[2] >= TileDim) =>
                   ~SourceOf(cell).found

W_DiagonalTRBLResolver ==
    /\ calls >= 1 /\ state.symmetryMode = DiagonalTRBL
    /\ state.symmetry = 100
    /\ TileW = 4 /\ TileH = 2
    /\ ~SourceOf(<<1, 2>>).found /\ ~SourceOf(<<0, 3>>).found
    /\ tile[1][2] = forced[1][2] /\ tile[1][3] = forced[1][3]
    /\ SourceOf(<<1, 1>>).found
    /\ tile[1][1] # forced[1][1]
    /\ tile[1][1] = mirrorDiagTRBL(tile[0][0])

----------------------------------------------------------------------------
(* Properties of the block transforms, read on the drawn picture *)

\* the picture with top and bottom exchanged
FlipTopBottom(p) == <<p[3], p[2], p[1], p[4]>>

\* the picture with left and right exchanged
FlipLeftRight(p) == <<p[1], p[4], p[3], p[2]>>

\* the picture with top and left exchanged and right and bottom exchanged
FlipTLBR(p) == <<p[4], p[3], p[2], p[1]>>

\* a picture whose reflections all differ from it and from each other
Asymmetric(p) ==
    Cardinality({p, FlipTopBottom(p), FlipLeftRight(p), FlipTLBR(p)}) = 4

\* C16: for every Square, HST and QST block at every quarter-turn rotation,
\* the picture of mirrorV(b) is the picture of b with the top and bottom
\* quarters exchanged and the left and right quarters kept
MirrorVFlipsTopBottom ==
    mirrored.mirrorV # NoBlock =>
        drawBlock(mirrored.mirrorV) = FlipTopBottom(drawBlock(srcBlock))

\* C17: for every Square, HST and QST block at every quarter-turn rotation,
\* the picture of mirrorH(b) is the picture of b with the left and right
\* quarters exchanged and the top and bottom quarters kept
MirrorHFlipsLeftRight ==
    mirrored.mirrorH # NoBlock =>
        drawBlock(mirrored.mirrorH) = FlipLeftRight(drawBlock(srcBlock))

\* a four-colour QST turned by 90 degrees has been mirrored left to right
W_MirrorHFlipsLeftRight ==
    /\ srcBlock.shape = QST
    /\ srcBlock.rotation = 90
    /\ Cardinality({srcBlock.colors[i] : i \in 1..4}) = 4
    /\ mirrored.mirrorH # NoBlock
    /\ Asymmetric(drawBlock(srcBlock))
    /\ drawBlock(mirrored.mirrorH) # drawBlock(srcBlock)

\* C18: for every Square, HST and QST block at every quarter-turn rotation,
\* the picture of mirrorDiagTLBR(b) is the picture of b with the top and
\* left quarters exchanged and the right and bottom quarters exchanged
MirrorDiagTLBRFlipsDiagonal ==
    mirrored.mirrorDiagTLBR # NoBlock =>
        drawBlock(mirrored.mirrorDiagTLBR) = FlipTLBR(drawBlock(srcBlock))

----------------------------------------------------------------------------
(* Properties of the simplifier, block by block *)

\* two colour identifiers that differ at most in letter case
SameColour(a, b) == ToUpperCase(a) = ToUpperCase(b)

\* the block handed to simplifyGrid and the block it returned
Given == grid[0][0]
Simplified == shown[0][0]

\* C19: an HST whose two colours are equal, letter case ignored, becomes a
\* Square with that single colour (["#FF0000","#FF0000"] gives ["#FF0000"]);
\* an HST whose colours differ is returned unchanged
HSTToSquare ==
    (shown # NoGrid /\ Given.shape = HST) =>
        IF SameColour(Given.colors[1], Given.colors[2])
        THEN /\ Simplified.shape = Square
             /\ Len(Simplified.colors) = 1
             /\ SameColour(Simplified.colors[1], Given.colors[1])
             /\ Given.colors[1] = Given.colors[2] =>
                    Simplified.colors = <<Given.colors[1]>>
        ELSE Simplified = Given

\* an HST of "#ff0000" and "#FF0000" was simplified to a Square
W_HSTToSquare ==
    /\ shown # NoGrid
    /\ Given.shape = HST
    /\ Given.colors = <<"#ff0000", "#FF0000">>
    /\ Simplified.shape = Square

\* the slots of a QST, clockwise: 1 top, 2 right, 3 bottom, 4 left
NextSlot(i) == (i % 4) + 1

\* the slots i whose colour equals that of the next slot clockwise
EqualAdjacent(b) ==
    {i \in 1..4 : SameColour(b.colors[i], b.colors[NextSlot(i)])}

DistinctColours(b) ==
    Cardinality({ToUpperCase(b.colors[i]) : i \in 1..4})

\* exactly one adjacent pair is equal and three distinct colours show
OneSolidCorner(b) ==
    /\ Cardinality(EqualAdjacent(b)) = 1
    /\ DistinctColours(b) = 3

\* the first slot of the one equal adjacent pair
SolidSlot(b) == CHOOSE i \in EqualAdjacent(b) : TRUE

\* 0 / 90 / 180 / 270 for solid corner bottom-left (slots 3, 4) / top-left
\* (4, 1) / top-right (1, 2) / bottom-right (2, 3)
CornerRotation(i) ==
    CASE i = 3 -> 0 [] i = 4 -> 90 [] i = 1 -> 180 [] i = 2 -> 270

\* the two slots outside the solid corner, in clockwise order from top
RestFromTop ==
    [i \in 1..4 |-> CASE i = 3 -> <<1, 2>> [] i = 4 -> <<2, 3>>
                      [] i = 1 -> <<3, 4>> [] i = 2 -> <<1, 4>>]

\* the two slots outside the solid corner, in clockwise order from the
\* slot after the corner
RestFromCorner ==
    [i \in 1..4 |->
        <<NextSlot(NextSlot(i)), NextSlot(NextSlot(NextSlot(i)))>>]

\* the QST rule with the remaining colours ordered by rest
QSTRule(rest) ==
    (shown # NoGrid /\ Given.shape = QST) =>
        /\ Simplified.shape = HSTSplit <=> OneSolidCorner(Given)
        /\ OneSolidCorner(Given) =>
              /\ Len(Simplified.colors) = 3
              /\ SameColour(Simplified.colors[1],
                            Given.colors[SolidSlot(Given)])
              /\ Simplified.colors[2] = Given.colors[rest[SolidSlot(Given)][1]]
              /\ Simplified.colors[3] = Given.colors[rest[SolidSlot(Given)][2]]
              /\ Simplified.rotation = CornerRotation(SolidSlot(Given))
        /\ EqualAdjacent(Given) = {} => Simplified = Given

\* C20 as stated: a QST becomes an HSTSplit exactly when exactly one
\* adjacent pair is equal and three distinct colours show; the result is
\* [solid corner colour, the two remaining colours clockwise from top] at
\* rotation 0 / 90 / 180 / 270 for corner bottom-left / top-left / top-right
\* / bottom-right; a QST without equal adjacent slots is unchanged
QSTToHSTSplitAsClaimed == QSTRule(RestFromTop)

\* C20: the same, with the two remaining colours in clockwise order starting
\* from the slot after the solid corner
QSTToHSTSplit == QSTRule(RestFromCorner)

\* a QST with the bottom-right corner solid was simplified, its top and left
\* colours being different
W_QSTToHSTSplit ==
    /\ shown # NoGrid
    /\ Given.shape = QST
    /\ OneSolidCorner(Given)
    /\ SolidSlot(Given) = 2
    /\ Simplified = Block(HSTSplit,
                          <<Given.colors[2], Given.colors[4], Given.colors[1]>>,
                          270)

----------------------------------------------------------------------------
(* Properties of the palette slice *)

\* the palette the configuration selects
SelectedPalette ==
    (BASE_PALETTES \o state.customPalettes)[state.paletteIndex + 1].colors

\* paletteColorCount clamped to [1, palette length]
ClampedCount ==
    IF state.paletteColorCount < 1 THEN 1
    ELSE IF state.paletteColorCount > Len(SelectedPalette)
    THEN Len(SelectedPalette)
    ELSE state.paletteColorCount

GridCells ==
    {<<row, col>> : row \in 0..(state.gridHeight - 1),
                    col \in 0..(state.gridWidth - 1)}

ColoursOf(b) == {b.colors[i] : i \in 1..Len(b.colors)}

\* C21: every colour of every block of the returned grid is one of the
\* first k colours of the selected palette, k being paletteColorCount clamped
\* to [1, palette length], under either colour-count policy and any mode
ColoursFromPaletteSlice ==
    grid # NoGrid =>
        \A cell \in GridCells :
            ColoursOf(grid[cell[1]][cell[2]]) \subseteq
                {SelectedPalette[i] : i \in 1..ClampedCount}

\* a 2 x 2 grid was generated with a colour count of 0 in exact mode and
\* shows the first colour of the custom palette only
W_ColoursFromPaletteSlice ==
    /\ grid # NoGrid
    /\ state.paletteColorCount = 0
    /\ state.paletteIndex = 1
    /\ state.colorCountMode = "exact"
    /\ state.gridWidth = 2 /\ state.gridHeight = 2
    /\ \A cell \in GridCells :
           ColoursOf(grid[cell[1]][cell[2]]) = {"#ff0000"}

----------------------------------------------------------------------------
(* Properties of the defensive defaults *)

\* the grid generateGrid returns for the same configuration under mode
GridUnderMode(mode) ==
    generateGrid([state EXCEPT !.symmetryMode = mode]).grid

\* C22: for a symmetryMode outside the seven defined modes generateGrid
\* returns a grid deep-equal to the one it returns for mode None with the
\* same seed and configuration, under both policies and any strength
UnknownModeAsNone ==
    (grid # NoGrid /\ state.symmetryMode \notin SymmetryMode) =>
        grid = GridUnderMode(ModeNone)

\* a 3 x 3 grid was generated in exact mode at full strength under an
\* unknown mode, and the Horizontal mode would have given another grid
W_UnknownModeAsNone ==
    /\ grid # NoGrid
    /\ state.symmetryMode = "spiral"
    /\ state.gridWidth = 3 /\ state.gridHeight = 3
    /\ state.symmetry = 100
    /\ state.colorCountMode = "exact"
    /\ grid = GridUnderMode(ModeNone)
    /\ grid # GridUnderMode(Horizontal)

----------------------------------------------------------------------------
(* Further properties of the block transforms *)

\* the picture turned half way round: top and bottom exchanged, left and
\* right exchanged
HalfTurn(p) == <<p[3], p[4], p[1], p[2]>>

\* C23: for every Square, HST and QST block at every rotation the picture of
\* rotate180(b) is the picture of b with top and bottom exchanged and left
\* and right exchanged
Rotate180TurnsPicture ==
    (mirrored.once # NoBlock /\ mirrored.fn = "rotate180") =>
        drawBlock(mirrored.once) = HalfTurn(drawBlock(srcBlock))

----------------------------------------------------------------------------
(* The simplifier and the picture *)

\* the picture with its colours compared without regard to letter case
PictureOf(b) == [i \in 1..4 |-> ToUpperCase(drawBlock(b)[i])]

\* C24: for every HST and QST block at every quarter-turn rotation the
\* picture of simplifyBlock(b) equals the picture of b
SimplifyKeepsPicture ==
    (shown # NoGrid /\ Given.shape \in {HST, QST}) =>
        PictureOf(Simplified) = PictureOf(Given)

----------------------------------------------------------------------------
(* Properties of generateTile's passes *)

\* C25: for every mode, tile size and cell, a source returned by
\* getSymmetrySource lies inside the tile, is not the cell itself, and is a
\* cell for which getSymmetrySource returns null
SourcesCanonicalInBounds ==
    calls >= 1 =>
        \A cell \in DerivedCells :
            /\ 0 <= SourceOf(cell).srcRow /\ SourceOf(cell).srcRow < TileH
            /\ 0 <= SourceOf(cell).srcCol /\ SourceOf(cell).srcCol < TileW
            /\ <<SourceOf(cell).srcRow, SourceOf(cell).srcCol>> # cell
            /\ ~SourceOf(<<SourceOf(cell).srcRow, SourceOf(cell).srcCol>>).found

\* a 4 x 4 four-way tile has derived cells, one of them with a source found
\* through the diagonal of the quadrant
W_SourcesCanonicalInBounds ==
    /\ calls >= 1
    /\ state.symmetryMode = FourWay
    /\ TileW = 4 /\ TileH = 4
    /\ DerivedCells # {}
    /\ \E cell \in DerivedCells : SourceOf(cell).transform.needsDiag

\* the colours the cells of a tile show
TileColours(t, cells) ==
    UNION {ColoursOf(t[cell[1]][cell[2]]) : cell \in cells}

\* C26: for every mode and strength a cell without symmetry source holds in
\* the returned tile the block it held after the random fill and the
\* exact-colour pass, so the colours that pass forced are still in the tile
CanonicalCellsKept ==
    calls >= 1 =>
        /\ \A cell \in CanonicalCells :
               tile[cell[1]][cell[2]] = forced[cell[1]][cell[2]]
        /\ TileColours(forced, CanonicalCells) \subseteq
               TileColours(tile, TileCells)

\* on a 3 x 3 four-way tile the exact-colour pass changed a canonical cell
\* and the symmetry pass at full strength changed a derived cell
W_CanonicalCellsKept ==
    /\ calls >= 1
    /\ state.symmetryMode = FourWay /\ state.symmetry = 100
    /\ state.colorCountMode = "exact"
    /\ TileW = 3 /\ TileH = 3
    /\ \E cell \in CanonicalCells :
           /\ forced[cell[1]][cell[2]] # filled[cell[1]][cell[2]]
           /\ tile[cell[1]][cell[2]] = forced[cell[1]][cell[2]]
    /\ \E cell \in DerivedCells :
           tile[cell[1]][cell[2]] # forced[cell[1]][cell[2]]

----------------------------------------------------------------------------
(* Algebra of the block transforms *)

\* the same colours, each as often
SameColourBag(b1, b2) ==
    /\ Len(b1.colors) = Len(b2.colors)
    /\ \A c \in ColoursOf(b1) \cup ColoursOf(b2) :
           Occurrences(b1.colors, c) = Occurrences(b2.colors, c)

\* C27: every transform (rotateCW with any integer turns, negative ones
\* included) applied to a Square, HST or QST block at a quarter-turn rotation
\* returns a block of the same shape, with the same multiset of colours and
\* a rotation in {0, 90, 180, 270}, and leaves the input block as it was
TransformsKeepBlock ==
    [][mirrored'.once # mirrored.once =>
          /\ srcBlock' = srcBlock
          /\ mirrored'.once.shape = srcBlock.shape
          /\ SameColourBag(mirrored'.once, srcBlock)
          /\ mirrored'.once.rotation \in {0, 90, 180, 270}]_vars

\* rotateCW with -3 turns took a four-colour QST from rotation 270 to 0
W_TransformsKeepBlock ==
    /\ mirrored.fn = "rotateCW" /\ mirrored.turns = -3
    /\ srcBlock.shape = QST /\ srcBlock.rotation = 270
    /\ Cardinality(ColoursOf(srcBlock)) = 4
    /\ mirrored.once = Block(QST, srcBlock.colors, 0)

Involutions ==
    {"mirrorH", "mirrorV", "rotate180", "mirrorDiagTLBR", "mirrorDiagTRBL"}

\* C28: mirrorH, mirrorV, rotate180, mirrorDiagTLBR and mirrorDiagTRBL applied
\* twice to a Square, HST or QST block at a quarter-turn rotation return a
\* block deep-equal to it
TransformsAreInvolutions ==
    (mirrored.twice # NoBlock /\ mirrored.fn \in Involutions) =>
        mirrored.twice = srcBlock

\* mirrorDiagTRBL changed a four-colour QST at rotation 90 and, applied
\* again, gave it back
W_TransformsAreInvolutions ==
    /\ mirrored.fn = "mirrorDiagTRBL"
    /\ srcBlock.shape = QST /\ srcBlock.rotation = 90
    /\ Cardinality(ColoursOf(srcBlock)) = 4
    /\ mirrored.once # srcBlock
    /\ mirrored.twice = srcBlock

----------------------------------------------------------------------------
(* Symmetry strength *)

\* the generator as the second pass of generateTile finds it: after the
\* random fill and, in exact mode, ensureAllColorsUsed
PassStartRng ==
    LET fill == FillBlocks(SeededRandom(state.seed), pool, paletteColors,
                           TileW * TileH)
    IN  IF state.colorCountMode = "exact"
        THEN ensureAllColorsUsed(fill.val, paletteColors, fill.rng, TileW,
                                 TileH, state.symmetryMode).rng
        ELSE fill.rng

\* the cells from index i on, in row-major order, that the second pass
\* overwrites at a given strength: one draw for each cell with a source
RECURSIVE WrittenFrom(_, _, _)
WrittenFrom(s, i, strength) ==
    IF i >= TileW * TileH THEN {}
    ELSE IF ~SourceOf(<<i \div TileW, i % TileW>>).found
    THEN WrittenFrom(s, i + 1, strength)
    ELSE LET d == RngNext(s)
         IN  (IF UseSymmetry(d.u, strength)
              THEN {<<i \div TileW, i % TileW>>} ELSE {})
             \cup WrittenFrom(d.rng, i + 1, strength)

Written(strength) == WrittenFrom(PassStartRng, 0, strength)

\* the run of generateGrid that differs in the strength only
RunAt(strength) == generateGrid([state EXCEPT !.symmetry = strength])

\* C29: for two runs that differ only in strength s <= s2, the fill, the
\* exact-colour pass and the number of draws are the same, every cell
\* overwritten at s is overwritten at s2, and every cell not overwritten at
\* s2 holds the same block in both runs
StrengthMonotone ==
    calls >= 1 =>
        \A w1 \in {Written(state.symmetry)} :
            /\ \A cell \in TileCells :
                   tile[cell[1]][cell[2]] =
                       IF cell \in w1
                       THEN Apply(SourceOf(cell).transform,
                                  forced[SourceOf(cell).srcRow]
                                        [SourceOf(cell).srcCol])
                       ELSE forced[cell[1]][cell[2]]
            /\ \A s2 \in {s \in Strengths : state.symmetry <= s} :
                   \A run \in {RunAt(s2)}, w2 \in {Written(s2)} :
                       /\ run.filled = filled
                       /\ run.forced = forced
                       /\ run.rng = rngState
                       /\ w1 \subseteq w2
                       /\ \A cell \in TileCells \ w2 :
                              run.tile[cell[1]][cell[2]] =
                                  tile[cell[1]][cell[2]]

\* at strength 50 some cell is overwritten and another is overwritten at
\* strength 100 only, where the tile differs
W_StrengthMonotone ==
    /\ calls >= 1
    /\ state.symmetry = 50
    /\ Written(50) # {}
    /\ Written(50) # Written(100)
    /\ RunAt(100).tile # tile
    /\ RunAt(100).forced = forced

----------------------------------------------------------------------------
(* The redraw throttle *)

\* what redraw() puts on the canvas for the state the store holds
LatestShown(st) == simplifyGrid(generateGrid(st).grid)

\* C30: at most one timer is pending; a redraw that is owed is marked by
\* pendingRedraw while the timer runs; whenever pendingRedraw is not set, and
\* so once the timers have fired, the canvas shows the latest state. An
\* update without pending timer redraws at once and starts a timer, an update
\* with a pending timer only sets pendingRedraw, and a timer firing with
\* pendingRedraw set redraws and starts a timer again.
ThrottleLosesNothing ==
    /\ [](/\ timers <= 1
          /\ redrawTimeout <=> timers = 1
          /\ pendingRedraw => redrawTimeout
          /\ (updates >= 1 /\ ~pendingRedraw) => shown = LatestShown(state))
    /\ [][/\ (updates' # updates /\ ~redrawTimeout) =>
                 /\ calls' = calls + 1
                 /\ shown' = LatestShown(state')
                 /\ redrawTimeout' /\ timers' = timers + 1
                 /\ ~pendingRedraw'
          /\ (updates' # updates /\ redrawTimeout) =>
                 /\ pendingRedraw'
                 /\ UNCHANGED <<calls, shown, grid, redrawTimeout, timers>>
          /\ (updates' = updates /\ pendingRedraw) =>
                 /\ calls' = calls + 1
                 /\ shown' = LatestShown(state)
                 /\ redrawTimeout' /\ timers' = 1
                 /\ ~pendingRedraw']_vars

\* two of three updates fell into one redraw, the timers have fired and the
\* canvas shows the grid of the last update, which is not the grid drawn
\* before it
W_ThrottleLosesNothing ==
    /\ updates = 3 /\ calls = 2
    /\ timers = 0 /\ ~redrawTimeout /\ ~pendingRedraw
    /\ shown = LatestShown(state)
    /\ grid # prevGrid

====
